---- MODULE Spec2Model ----
(***************************************************************************)
(* A model of the household-ledger CLI (kakeibo_app): the entry model, the *)
(* JSON store, the input validators, the Registration workflow and the     *)
(* Summarization workflow.                                                 *)
(*                                                                         *)
(* Representation                                                          *)
(*   Text   a sequence of one-character strings (a Rust String / &str).    *)
(*   u8     a number in 0..255.                                            *)
(*   u32    a record [hi, lo] of two 16-bit halves (value hi*65536 + lo),  *)
(*          because the values above 2^31-1 do not fit a TLC integer.      *)
(*   i32    a number in -2^31 .. 2^31-1.                                   *)
(*   Result a record [ok, val]; a panic is [ok |-> FALSE, val |-> msg].    *)
(* The panic messages of the source are Japanese; the model names each by  *)
(* an ASCII tag and quotes the original in a comment.                      *)
(***************************************************************************)
EXTENDS Integers, Sequences, FiniteSets

VARIABLES
    store,    \* the file store/data.json: [exists, readable, content]
    build,    \* "debug" (overflow checks on) or "release" (wrapping)
    out,      \* the lines the last run printed to stdout
    panic,    \* the panic message that ended the last run, or NoPanic
    call,     \* the library-level call last applied: [fn, args]
    ret       \* what that call returned

vars == <<store, build, out, panic, call, ret>>

(***************************************************************************)
(* Text                                                                    *)
(***************************************************************************)
DigitChars == <<"0", "1", "2", "3", "4", "5", "6", "7", "8", "9">>

IsDigit(c) == \E i \in 1..10 : DigitChars[i] = c

DigitVal(c) == (CHOOSE i \in 1..10 : DigitChars[i] = c) - 1

DigitChar(d) == DigitChars[d + 1]

Whitespace == {" ", "\n", "\t", "\r"}

RECURSIVE TrimStart(_)
TrimStart(s) ==
    IF s # <<>> /\ Head(s) \in Whitespace THEN TrimStart(Tail(s)) ELSE s

RECURSIVE TrimEnd(_)
TrimEnd(s) ==
    IF s # <<>> /\ s[Len(s)] \in Whitespace
    THEN TrimEnd(SubSeq(s, 1, Len(s) - 1))
    ELSE s

\* str::trim
Trim(s) == TrimEnd(TrimStart(s))

AllDigits(s) == \A i \in 1..Len(s) : IsDigit(s[i])

Ok(v) == [ok |-> TRUE, val |-> v]

Err(m) == [ok |-> FALSE, val |-> m]

(***************************************************************************)
(* Fixed-width integers                                                    *)
(***************************************************************************)
U8Max == 255

Half == 65536

I32Max == 2147483647

I32Min == -2147483647 - 1

U32(hi, lo) == [hi |-> hi, lo |-> lo]

\* str::parse::<u8>: an optional '+', then one or more digits, value <= 255.
RECURSIVE ParseU8Digits(_, _)
ParseU8Digits(s, acc) ==
    IF s = <<>> THEN Ok(acc)
    ELSE LET v == acc * 10 + DigitVal(Head(s))
         IN  IF v > U8Max THEN Err("PosOverflow") ELSE ParseU8Digits(Tail(s), v)

ParseU8(s) ==
    LET body == IF s # <<>> /\ Head(s) = "+" THEN Tail(s) ELSE s
    IN  IF body = <<>> \/ ~AllDigits(body) THEN Err("InvalidDigit")
        ELSE ParseU8Digits(body, 0)

\* str::parse::<u32>, on the two-halves representation.
RECURSIVE ParseU32Digits(_, _)
ParseU32Digits(s, acc) ==
    IF s = <<>> THEN Ok(acc)
    ELSE LET lo10 == acc.lo * 10 + DigitVal(Head(s))
             hi10 == acc.hi * 10 + (lo10 \div Half)
         IN  IF hi10 >= Half THEN Err("PosOverflow")
             ELSE ParseU32Digits(Tail(s), U32(hi10, lo10 % Half))

ParseU32(s) ==
    LET body == IF s # <<>> /\ Head(s) = "+" THEN Tail(s) ELSE s
    IN  IF body = <<>> \/ ~AllDigits(body) THEN Err("InvalidDigit")
        ELSE ParseU32Digits(body, U32(0, 0))

\* Display for u32: the decimal digits, no padding.
RECURSIVE FormatU32(_)
FormatU32(p) ==
    LET mid == (p.hi % 10) * Half + p.lo
        q   == U32(p.hi \div 10, mid \div 10)
        d   == <<DigitChar(mid % 10)>>
    IN  IF q = U32(0, 0) THEN d ELSE FormatU32(q) \o d

\* Display for a non-negative i32 (also i32 year, u32 month).
RECURSIVE FormatNat(_)
FormatNat(n) ==
    IF n < 10 THEN <<DigitChar(n)>>
    ELSE FormatNat(n \div 10) \o <<DigitChar(n % 10)>>

\* The decimal digits of |n| for a negative i32 n, computed on n itself so
\* that i32::MIN needs no 2^31.
RECURSIVE FormatMagnitudeOfNeg(_)
FormatMagnitudeOfNeg(n) ==
    LET r    == (10 - (n % 10)) % 10
        rest == (n + r) \div 10
    IN  IF rest = 0 THEN <<DigitChar(r)>>
        ELSE FormatMagnitudeOfNeg(rest) \o <<DigitChar(r)>>

\* Display for i32: '-' and the magnitude when negative.
FormatI32(n) ==
    IF n < 0 THEN <<"-">> \o FormatMagnitudeOfNeg(n) ELSE FormatNat(n)

\* `x as i32` for x: u32 (two's-complement reinterpretation, never panics).
AsI32(p) ==
    IF p.hi >= Half \div 2 THEN (p.hi - Half) * Half + p.lo
    ELSE p.hi * Half + p.lo

\* a + b on i32: panics in a debug build, wraps in a release build.
AddI32(a, b, bld) ==
    IF a > 0 /\ b > 0 /\ b > I32Max - a
    THEN IF bld = "debug" THEN Err("attempt to add with overflow")
         ELSE Ok((a - I32Max - 1) + (b - I32Max - 1))
    ELSE IF a < 0 /\ b < 0 /\ b < I32Min - a
    THEN IF bld = "debug" THEN Err("attempt to add with overflow")
         ELSE Ok((a + I32Max + 1) + (b + I32Max + 1))
    ELSE Ok(a + b)

\* -1 * a on i32: overflows only for a = i32::MIN.
NegI32(a, bld) ==
    IF a = I32Min
    THEN IF bld = "debug" THEN Err("attempt to multiply with overflow")
         ELSE Ok(I32Min)
    ELSE Ok(-a)

(***************************************************************************)
(* models: Category, Item                                                  *)
(***************************************************************************)
IncomeCategory == <<"Salary", "Bonus", "Other">>

ExpenseCategory == <<"Food", "Hobby", "Other">>

Income(sub) == [variant |-> "Income", sub |-> sub]

Expense(sub) == [variant |-> "Expense", sub |-> sub]

\* The six values of the enum Category.
Category ==
    {Income(IncomeCategory[i]) : i \in 1..3} \cup {Expense(ExpenseCategory[i]) : i \in 1..3}

\* NaiveDate, as its calendar fields.
Date(y, m, d) == [y |-> y, m |-> m, d |-> d]

\* Item::new
Item(name, category, price, date) ==
    [name |-> name, category |-> category, price |-> price, date |-> date]

\* panic!("不正なカテゴリ種別です")
MsgInvalidCategory == "invalid category kind"

\* A get_category whose match falls back to the Other subcategory instead of
\* panicking.
get_category_fallback(register_type, category_type) ==
    IF register_type = 0
    THEN CASE category_type = 0 -> Ok(Income("Salary"))
           [] category_type = 1 -> Ok(Income("Bonus"))
           [] OTHER -> Ok(Income("Other"))
    ELSE CASE category_type = 0 -> Ok(Expense("Food"))
           [] category_type = 1 -> Ok(Expense("Hobby"))
           [] OTHER -> Ok(Expense("Other"))

\* Item::get_category
get_category(register_type, category_type) ==
    IF register_type = 0
    THEN CASE category_type = 0 -> Ok(Income("Salary"))
           [] category_type = 1 -> Ok(Income("Bonus"))
           [] category_type = 2 -> Ok(Income("Other"))
           [] OTHER -> Err(MsgInvalidCategory)
    ELSE CASE category_type = 0 -> Ok(Expense("Food"))
           [] category_type = 1 -> Ok(Expense("Hobby"))
           [] category_type = 2 -> Ok(Expense("Other"))
           [] OTHER -> Err(MsgInvalidCategory)

get_year(item) == item.date.y

get_month(item) == item.date.m

get_first_day(item) == Date(get_year(item), get_month(item), 1)

\* Item::get_price_for_summary: `self.price as i32` for Income,
\* `-1 * self.price as i32` (that is -1 * (price as i32)) for Expense.
get_price_for_summary(item, bld) ==
    IF item.category.variant = "Income" THEN Ok(AsI32(item.price))
    ELSE NegI32(AsI32(item.price), bld)

(***************************************************************************)
(* services::validate                                                      *)
(***************************************************************************)
\* panic!("入力値が不正です")
MsgInvalidService == "invalid input value"

\* panic!("登録種別の入力値が不正です")
MsgInvalidRegisterType == "invalid register type input value"

\* panic!("カテゴリ入力値が不正です")
MsgInvalidCategoryType == "invalid category input value"

validate_service_type(service_type) ==
    IF service_type \in {0, 1} THEN Ok("unit") ELSE Err(MsgInvalidService)

validate_register_type(register_type) ==
    IF register_type \in {0, 1} THEN Ok("unit") ELSE Err(MsgInvalidRegisterType)

\* A validate_category_type whose expense branch matches 0..=3.
validate_category_type_wide(register_type, category_type) ==
    IF register_type = 0
    THEN IF category_type \in {0, 1, 2} THEN Ok("unit") ELSE Err(MsgInvalidCategoryType)
    ELSE IF category_type \in {0, 1, 2, 3} THEN Ok("unit") ELSE Err(MsgInvalidCategoryType)

validate_category_type(register_type, category_type) ==
    IF register_type = 0
    THEN IF category_type \in {0, 1, 2} THEN Ok("unit") ELSE Err(MsgInvalidCategoryType)
    ELSE IF category_type \in {0, 1, 2} THEN Ok("unit") ELSE Err(MsgInvalidCategoryType)

(***************************************************************************)
(* chrono::NaiveDate: ordering, Display/Debug, FromStr                     *)
(***************************************************************************)
\* Ord for NaiveDate: chronological.
DateLess(a, b) ==
    \/ a.y < b.y
    \/ a.y = b.y /\ a.m < b.m
    \/ a.y = b.y /\ a.m = b.m /\ a.d < b.d

IsLeap(y) == (y % 4 = 0 /\ y % 100 # 0) \/ y % 400 = 0

DaysInMonth(y, m) ==
    CASE m \in {1, 3, 5, 7, 8, 10, 12} -> 31
      [] m \in {4, 6, 9, 11} -> 30
      [] OTHER -> IF IsLeap(y) THEN 29 ELSE 28

\* The calendar check of NaiveDate::from_ymd_opt
ValidDate(y, m, d) == m \in 1..12 /\ d \in 1..DaysInMonth(y, m)

\* {:0w}: the decimal digits of n, zero-padded on the left to width w.
RECURSIVE ZeroPad(_, _)
ZeroPad(t, w) == IF Len(t) >= w THEN t ELSE ZeroPad(<<"0">> \o t, w)

\* Debug/Display of NaiveDate (years 0..9999): YYYY-MM-DD.
FormatDate(date) ==
    ZeroPad(FormatNat(date.y), 4) \o <<"-">> \o ZeroPad(FormatNat(date.m), 2)
        \o <<"-">> \o ZeroPad(FormatNat(date.d), 2)

\* The fields of s between the separators sep.
RECURSIVE SplitOn(_, _, _)
SplitOn(s, sep, cur) ==
    IF s = <<>> THEN <<cur>>
    ELSE IF Head(s) = sep THEN <<cur>> \o SplitOn(Tail(s), sep, <<>>)
    ELSE SplitOn(Tail(s), sep, Append(cur, Head(s)))

RECURSIVE DigitsToNat(_, _)
DigitsToNat(s, acc) ==
    IF s = <<>> THEN acc ELSE DigitsToNat(Tail(s), acc * 10 + DigitVal(Head(s)))

\* NaiveDate::from_str: year (1-4 digits), '-', month (1-2 digits), '-', day
\* (1-2 digits); surrounding whitespace is skipped by the format's Space
\* items; the fields must name a calendar day.
from_ymd_opt(y, m, d) ==
    IF ValidDate(y, m, d) THEN Ok(Date(y, m, d)) ELSE Err("ParseError")

ParseDateFields(f) ==
    IF Len(f) # 3 THEN Err("ParseError")
    ELSE IF \E i \in 1..3 : f[i] = <<>> \/ ~AllDigits(f[i]) THEN Err("ParseError")
    ELSE IF Len(f[1]) > 4 \/ Len(f[2]) > 2 \/ Len(f[3]) > 2 THEN Err("ParseError")
    ELSE from_ymd_opt(DigitsToNat(f[1], 0), DigitsToNat(f[2], 0), DigitsToNat(f[3], 0))

ParseDate(text) == ParseDateFields(SplitOn(Trim(text), "-", <<>>))

(***************************************************************************)
(* serde / serde_json for Vec<Item>                                        *)
(* A file's content is [kind, elems]: a JSON array of objects, each with   *)
(* the fields name (string, escaped), category (externally tagged enum     *)
(* {"<variant>": "<sub>"}), price (number, its digits) and date (string);  *)
(* or text that is no JSON; or the empty file a failed write leaves.       *)
(***************************************************************************)
JsonArray(elems) == [kind |-> "json array", elems |-> elems]

NotJson == [kind |-> "not json", elems |-> <<>>]

EmptyFile == [kind |-> "empty file", elems |-> <<>>]

NoContent == [kind |-> "no file", elems |-> <<>>]

\* A JSON string's escaping of '"', '\' and newline.
RECURSIVE EscapeJson(_)
EscapeJson(t) ==
    IF t = <<>> THEN <<>>
    ELSE (CASE Head(t) = "\"" -> <<"\\", "\"">>
            [] Head(t) = "\\" -> <<"\\", "\\">>
            [] Head(t) = "\n" -> <<"\\", "n">>
            [] OTHER -> <<Head(t)>>) \o EscapeJson(Tail(t))

RECURSIVE UnescapeJson(_)
UnescapeJson(t) ==
    IF t = <<>> THEN <<>>
    ELSE IF Head(t) = "\\" /\ Len(t) >= 2
    THEN <<IF t[2] = "n" THEN "\n" ELSE t[2]>> \o UnescapeJson(Tail(Tail(t)))
    ELSE <<Head(t)>> \o UnescapeJson(Tail(t))

\* #[derive(Serialize)] for Item
SerializeItem(item) ==
    [name     |-> EscapeJson(item.name),
     category |-> [tag |-> item.category.variant, value |-> item.category.sub],
     price    |-> FormatU32(item.price),
     date     |-> FormatDate(item.date)]

\* serde_json::to_string_pretty(data)
to_string_pretty(data) == JsonArray([i \in 1..Len(data) |-> SerializeItem(data[i])])

\* #[derive(Deserialize)] for Category
DeserializeCategory(c) ==
    IF c.tag = "Income" /\ \E i \in 1..3 : IncomeCategory[i] = c.value
    THEN Ok(Income(c.value))
    ELSE IF c.tag = "Expense" /\ \E i \in 1..3 : ExpenseCategory[i] = c.value
    THEN Ok(Expense(c.value))
    ELSE Err("unknown variant")

\* A JSON number read as u32: digits only, within range.
JsonU32(t) ==
    IF t = <<>> \/ ~AllDigits(t) THEN Err("invalid type") ELSE ParseU32Digits(t, U32(0, 0))

\* #[derive(Deserialize)] for Item
ItemOfFields(name, c, p, d) ==
    IF c.ok /\ p.ok /\ d.ok THEN Ok(Item(name, c.val, p.val, d.val))
    ELSE Err("invalid item")

DeserializeItem(o) ==
    ItemOfFields(UnescapeJson(o.name), DeserializeCategory(o.category),
                 JsonU32(o.price), ParseDate(o.date))

\* serde_json::from_reader::<_, Vec<Item>>
VecOfItems(items) ==
    IF \A i \in 1..Len(items) : items[i].ok
    THEN Ok([i \in 1..Len(items) |-> items[i].val])
    ELSE Err("data error")

from_reader(content) ==
    IF content.kind # "json array" THEN Err("syntax error")
    ELSE VecOfItems([i \in 1..Len(content.elems) |-> DeserializeItem(content.elems[i])])

(***************************************************************************)
(* services::io                                                            *)
(***************************************************************************)
Line(msg, args) == [msg |-> msg, args |-> args]

\* The store when the file does not exist.
Missing == [exists |-> FALSE, readable |-> FALSE, content |-> NoContent]

\* An existing file with the given content.
File(readable, content) == [exists |-> TRUE, readable |-> readable, content |-> content]

\* File::open: fails when the file is missing or cannot be opened for reading.
OpenOk(st) == st.exists /\ st.readable

\* .expect("デシリアライズに失敗しました")
MsgDeserialize == "failed to deserialize"

\* .expect("ファイルをオープンできませんでした")
MsgCannotOpen == "could not open the file"

\* panic!("データが存在しません")
MsgNoData == "no data"

\* .expect("書き込みファイルのオープンに失敗しました")
MsgCreateFailed == "failed to open the file for writing"

\* .expect("ファイルへの書き込みに失敗しました")
MsgWriteFailed == "failed to write to the file"

\* println!("新規ファイルを作成します")
LineNewFile == Line("a new file will be created", <<>>)

\* println!("項目の登録が完了しました")
LineRegistered == Line("the item has been registered", <<>>)

\* read_data_or_create_new_data: [ok, val, out]
ExpectDeserialized(r) ==
    IF r.ok THEN [ok |-> TRUE, val |-> r.val, out |-> <<>>]
    ELSE [ok |-> FALSE, val |-> MsgDeserialize, out |-> <<>>]

read_data_or_create_new_data(st) ==
    IF OpenOk(st) THEN ExpectDeserialized(from_reader(st.content))
    ELSE [ok |-> TRUE, val |-> <<>>, out |-> <<LineNewFile>>]

\* A read_data_or_panic without the `data.len() == 0` check.
ExpectDataUnchecked(r) ==
    IF ~r.ok THEN Err(MsgDeserialize) ELSE Ok(r.val)

\* read_data_or_panic, from the deserialized data on
ExpectData(r) ==
    IF ~r.ok THEN Err(MsgDeserialize)
    ELSE IF Len(r.val) = 0 THEN Err(MsgNoData)
    ELSE Ok(r.val)

\* read_data_or_panic
read_data_or_panic(st) ==
    IF ~OpenOk(st) THEN Err(MsgCannotOpen) ELSE ExpectData(from_reader(st.content))

\* write_to_json: [ok, val, out, store]. createOk and writeOk are the
\* outcomes of File::create and writeln!; File::create truncates an existing
\* file (its permissions kept) or creates a readable one.
Created(st, content) == File(IF st.exists THEN st.readable ELSE TRUE, content)

write_to_json(data, st, createOk, writeOk) ==
    IF ~createOk
    THEN [ok |-> FALSE, val |-> MsgCreateFailed, out |-> <<>>, store |-> st]
    ELSE IF ~writeOk
    THEN [ok |-> FALSE, val |-> MsgWriteFailed, out |-> <<>>,
          store |-> Created(st, EmptyFile)]
    ELSE [ok |-> TRUE, val |-> "unit", out |-> <<LineRegistered>>,
          store |-> Created(st, to_string_pretty(data))]

(***************************************************************************)
(* services::summarize                                                     *)
(***************************************************************************)
NoPanic == "no panic"

\* println!("家計簿の集計を行います")
LineSummarizeStart == Line("summarizing the ledger", <<>>)

\* println!("{}の収支は{}円でした", date, price)
LineReport(date, price) == Line("the balance of {} was {} yen", <<date, price>>)

\* get_target_dates: the BTreeSet of the items' first days.
get_target_dates(data) == {get_first_day(data[i]) : i \in 1..Len(data)}

\* A get_filtered_data that compares the month only.
get_filtered_data_by_month(data, first_date) ==
    SelectSeq(data, LAMBDA item : get_month(item) = first_date.m)

\* get_filtered_data
get_filtered_data(data, first_date) ==
    SelectSeq(data, LAMBDA item :
        get_year(item) = first_date.y /\ get_month(item) = first_date.m)

\* summarize_data: the loop `sum += item.get_price_for_summary()`, from the
\* item at i on; AddPrice is one turn of it, p being the item's signed price.
RECURSIVE SumFrom(_, _, _, _)
RECURSIVE AddPrice(_, _, _, _, _)
AddedPrice(data, i, a, bld) ==
    IF ~a.ok THEN a ELSE SumFrom(data, i + 1, a.val, bld)

AddPrice(data, i, sum, bld, p) ==
    IF ~p.ok THEN p ELSE AddedPrice(data, i, AddI32(sum, p.val, bld), bld)

SumFrom(data, i, sum, bld) ==
    IF i > Len(data) THEN Ok(sum)
    ELSE AddPrice(data, i, sum, bld, get_price_for_summary(data[i], bld))

summarize_data(data, bld) == SumFrom(data, 1, 0, bld)

\* The iteration order of a BTreeSet<NaiveDate> / BTreeMap<NaiveDate, _>.
RECURSIVE Ascending(_)
Ascending(S) ==
    IF S = {} THEN <<>>
    ELSE LET min == CHOOSE a \in S : \A b \in S \ {a} : DateLess(a, b)
         IN  <<min>> \o Ascending(S \ {min})

\* format_date
format_date(date) == FormatNat(date.y) \o <<"/">> \o FormatNat(date.m)

\* A format_price that signs every price that is not negative.
format_price_signed_zero(price) ==
    IF price >= 0 THEN <<"+">> \o FormatI32(price) ELSE FormatI32(price)

\* format_price
format_price(price) ==
    IF price > 0 THEN <<"+">> \o FormatI32(price) ELSE FormatI32(price)

\* print_table: one line per key of the BTreeMap, ascending.
print_table(result_table) ==
    LET keys == Ascending(DOMAIN result_table)
    IN  [i \in 1..Len(keys) |->
            LineReport(format_date(keys[i]), format_price(result_table[keys[i]]))]

\* BTreeMap::insert
Insert(table, key, value) ==
    [k \in DOMAIN table \cup {key} |-> IF k = key THEN value ELSE table[k]]

\* The loop of summarize::run over the target dates, ascending:
\* result_table.insert(date, summarize_data(&get_filtered_data(&data, date))).
RECURSIVE ForEachDate(_, _, _, _)
InsertSum(data, dates, result_table, bld, sum) ==
    IF ~sum.ok THEN sum
    ELSE ForEachDate(data, Tail(dates), Insert(result_table, Head(dates), sum.val), bld)

ForEachDate(data, dates, result_table, bld) ==
    IF dates = <<>> THEN Ok(result_table)
    ELSE InsertSum(data, dates, result_table, bld,
                   summarize_data(get_filtered_data(data, Head(dates)), bld))

\* summarize::run, from the result table on
Tabulated(t, st) ==
    IF ~t.ok
    THEN [out |-> <<LineSummarizeStart>>, panic |-> t.val, ret |-> t, store |-> st]
    ELSE [out |-> <<LineSummarizeStart>> \o print_table(t.val), panic |-> NoPanic,
          ret |-> t, store |-> st]

\* summarize::run, from the data read on
Summarized(r, st, bld) ==
    IF ~r.ok
    THEN [out |-> <<LineSummarizeStart>>, panic |-> r.val, ret |-> r, store |-> st]
    ELSE Tabulated(ForEachDate(r.val, Ascending(get_target_dates(r.val)), <<>>, bld), st)

\* A summarize::run that leaves the store emptied after reading it.
summarize_run_consuming(st, bld) ==
    Summarized(read_data_or_panic(st), Created(st, JsonArray(<<>>)), bld)

\* summarize::run: [out, panic, ret, store]; ret is the result table.
summarize_run(st, bld) == Summarized(read_data_or_panic(st), st, bld)

(***************************************************************************)
(* services::register                                                      *)
(***************************************************************************)
\* println!("収支の登録を行います")
LineRegisterStart == Line("registering income or expense", <<>>)

\* println!("登録種別を入力してください (0:収入, 1:支出)")
PromptRegisterType == Line("enter the register type (0:income, 1:expense)", <<>>)

\* println!("品目名を入力してください")
PromptName == Line("enter the item name", <<>>)

\* println!("カテゴリを入力してください") and the menu of the register type
PromptCategory(register_type) ==
    <<Line("enter the category", <<>>),
      IF register_type = 0 THEN Line("(0:salary, 1:bonus, 2:other)", <<>>)
      ELSE Line("(0:food, 1:hobby, 2:other)", <<>>)>>

\* println!("金額を入力してください")
PromptPrice == Line("enter the price", <<>>)

\* println!("日付を入力してください")
PromptDate == Line("enter the date", <<>>)

\* println!("登録情報: {:?}", item)
LineItem(item) ==
    Line("registered info: {:?}",
         <<item.name, <<item.category.variant, item.category.sub>>,
           FormatU32(item.price), FormatDate(item.date)>>)

\* .expect("登録種別は数値で入力してください")
MsgRegisterTypeNotNumber == "enter the register type as a number"

\* .expect("カテゴリ種別は数値で入力してください")
MsgCategoryNotNumber == "enter the category type as a number"

\* .expect("金額は数値で入力してください")
MsgPriceNotNumber == "enter the price as a number"

\* .expect("日付はyyyy-mm-ddの形式で入力してください")
MsgDateFormat == "enter the date as yyyy-mm-dd"

\* The validation at the end of input_register_type
ValidatedRegisterType(p) ==
    IF ~p.ok THEN Err(MsgRegisterTypeNotNumber)
    ELSE IF ~validate_register_type(p.val).ok THEN validate_register_type(p.val)
    ELSE Ok(p.val)

\* input_register_type, on the line read from stdin
input_register_type(line) == ValidatedRegisterType(ParseU8(Trim(line)))

\* input_name
input_name(line) == Ok(Trim(line))

\* The validation at the end of input_category_type
ValidatedCategoryType(register_type, p) ==
    IF ~p.ok THEN Err(MsgCategoryNotNumber)
    ELSE IF ~validate_category_type(register_type, p.val).ok
    THEN validate_category_type(register_type, p.val)
    ELSE Ok(p.val)

\* input_category_type
input_category_type(register_type, line) ==
    ValidatedCategoryType(register_type, ParseU8(Trim(line)))

ExpectPrice(p) == IF ~p.ok THEN Err(MsgPriceNotNumber) ELSE p

\* input_price
input_price(line) == ExpectPrice(ParseU32(Trim(line)))

ExpectDate(p) == IF ~p.ok THEN Err(MsgDateFormat) ELSE p

\* input_date: NaiveDate::from_str on the line as read (not trimmed)
input_date(line) == ExpectDate(ParseDate(line))

\* A run that has created the file for writing before it reads its input, and
\* panics with msg after printing o.
AbortedAfterCreate(o, msg, st) ==
    [out |-> o, panic |-> msg, ret |-> Err(msg), store |-> Created(st, EmptyFile)]

\* A run that panics with msg after printing o: the store is as it was.
Aborted(o, msg, st) == [out |-> o, panic |-> msg, ret |-> Err(msg), store |-> st]

\* What register::run has printed when each step returns.
OutRegisterType == <<LineRegisterStart, PromptRegisterType>>

OutCategoryType(register_type) ==
    OutRegisterType \o <<PromptName>> \o PromptCategory(register_type)

OutPrice(register_type) == OutCategoryType(register_type) \o <<PromptPrice>>

OutDate(register_type) == OutPrice(register_type) \o <<PromptDate>>

\* register::run from write_to_json on (w is what it returned)
Written(o, item, w) ==
    [out |-> o \o w.out, panic |-> IF w.ok THEN NoPanic ELSE w.val, ret |-> Ok(item),
     store |-> w.store]

\* register::run from read_data_or_create_new_data on (r is what it returned):
\* data.push(item); write_to_json(&data, file_path)
Loaded(o, item, r, st, createOk, writeOk) ==
    IF ~r.ok THEN [out |-> o \o r.out, panic |-> r.val, ret |-> Ok(item), store |-> st]
    ELSE Written(o \o r.out, item, write_to_json(Append(r.val, item), st, createOk, writeOk))

\* register::run from Item::new on
Constructed(o, item, st, createOk, writeOk) ==
    Loaded(o \o <<LineItem(item)>>, item, read_data_or_create_new_data(st), st,
           createOk, writeOk)

\* register::run from Item::get_category on
Categorized(register_type, name, category, price, date, st, createOk, writeOk) ==
    IF ~category.ok THEN Aborted(OutDate(register_type), category.val, st)
    ELSE Constructed(OutDate(register_type), Item(name, category.val, price, date), st,
                     createOk, writeOk)

\* register::run from input_date on
DateRead(register_type, name, category_type, price, date, st, createOk, writeOk) ==
    IF ~date.ok THEN Aborted(OutDate(register_type), date.val, st)
    ELSE Categorized(register_type, name, get_category(register_type, category_type),
                     price, date.val, st, createOk, writeOk)

\* register::run from input_price on
PriceRead(register_type, name, category_type, price, inp, st, createOk, writeOk) ==
    IF ~price.ok THEN Aborted(OutPrice(register_type), price.val, st)
    ELSE DateRead(register_type, name, category_type, price.val, input_date(inp.date),
                  st, createOk, writeOk)

\* register::run from input_category_type on
CategoryTypeRead(register_type, name, category_type, inp, st, createOk, writeOk) ==
    IF ~category_type.ok THEN Aborted(OutCategoryType(register_type), category_type.val, st)
    ELSE PriceRead(register_type, name, category_type.val, input_price(inp.price), inp,
                   st, createOk, writeOk)

\* register::run from input_register_type on
RegisterTypeRead(register_type, inp, st, createOk, writeOk) ==
    IF ~register_type.ok THEN Aborted(OutRegisterType, register_type.val, st)
    ELSE CategoryTypeRead(register_type.val, input_name(inp.name).val,
                          input_category_type(register_type.val, inp.cat), inp, st,
                          createOk, writeOk)

\* register::run: [out, panic, ret, store]; ret is the Item constructed.
\* inp holds the five lines typed; createOk, writeOk as in write_to_json.
register_run(inp, st, createOk, writeOk) ==
    RegisterTypeRead(input_register_type(inp.kind), inp, st, createOk, writeOk)

(***************************************************************************)
(* main                                                                    *)
(***************************************************************************)
\* println!("実行したい内容を入力してください (0:登録, 1:集計)")
PromptService == Line("enter what to run (0:register, 1:summarize)", <<>>)

\* .expect("数値で入力してください")
MsgServiceNotNumber == "enter a number"

\* main panicking before it dispatches
RejectedBy(msg, st) ==
    [fn |-> "main", out |-> <<PromptService>>, panic |-> msg, ret |-> Err(msg),
     store |-> st]

\* main once the service has returned r
Served(fn, r) ==
    [fn |-> fn, out |-> <<PromptService>> \o r.out, panic |-> r.panic, ret |-> r.ret,
     store |-> r.store]

\* main from the parsed service type on
Dispatch(p, inp, st, bld, createOk, writeOk) ==
    IF ~p.ok THEN RejectedBy(MsgServiceNotNumber, st)
    ELSE IF ~validate_service_type(p.val).ok
    THEN RejectedBy(validate_service_type(p.val).val, st)
    ELSE IF p.val = 0
    THEN Served("register::run", register_run(inp, st, createOk, writeOk))
    ELSE Served("summarize::run", summarize_run(st, bld))

\* main: [fn, out, panic, ret, store], fn naming the service that ran.
main(line, inp, st, bld, createOk, writeOk) ==
    Dispatch(ParseU8(Trim(line)), inp, st, bld, createOk, writeOk)

(***************************************************************************)
(* Bounds and the sets the inputs are drawn from                           *)
(***************************************************************************)
\* The longest ledger a Registration run may still extend.
MaxStore == 2

\* The longest ledger drawn for the Summarization and store specifications.
MaxLedger == 3

Builds == {"debug", "release"}

\* u32 prices: 0, 3000, 5000, 100000, 300000, 2^31-1, 2^31, 3000000000, 2^32-1.
SamplePrices ==
    {U32(0, 0), U32(0, 3000), U32(0, 5000), U32(1, 34464), U32(4, 37856),
     U32(32767, 65535), U32(32768, 0), U32(45776, 24064), U32(65535, 65535)}

\* The ledger of the tests of services::summarize (names transliterated).
get_test_data ==
    <<Item(<<"s", "h", "i", "n">>, Expense("Food"), U32(0, 5000), Date(2022, 1, 10)),
      Item(<<"k", "y", "u">>, Income("Salary"), U32(4, 37856), Date(2022, 1, 20)),
      Item(<<"r", "y", "o">>, Expense("Hobby"), U32(1, 34464), Date(2022, 1, 30)),
      Item(<<"g", "a", "i">>, Expense("Food"), U32(0, 3000), Date(2022, 2, 15)),
      Item(<<"k", "a", "n">>, Expense("Other"), U32(0, 10000), Date(2022, 4, 15))>>

\* Entries for the drawn ledgers: same month on different days, the same
\* month number in two years, a pair netting to zero, prices at and beyond
\* the i32 range, a name that needs escaping.
SampleItems ==
    {Item(<<"a">>, Expense("Food"), U32(0, 5000), Date(2022, 1, 10)),
     Item(<<"b", "\"">>, Income("Salary"), U32(0, 5000), Date(2022, 1, 20)),
     Item(<<>>, Income("Bonus"), U32(32767, 65535), Date(2022, 1, 20)),
     Item(<<"c">>, Expense("Hobby"), U32(0, 3000), Date(2021, 2, 15)),
     Item(<<"d", "\\">>, Income("Other"), U32(4, 37856), Date(2022, 2, 15)),
     Item(<<"e">>, Expense("Other"), U32(32768, 0), Date(2021, 12, 31)),
     Item(<<"f", " ", "g">>, Expense("Food"), U32(65535, 65535), Date(2022, 2, 28))}

Ledgers(n) == UNION {[1..k -> SampleItems] : k \in 0..n}

\* Dates a filter may be asked for: any day of a month.
SampleDates ==
    {Date(2022, 1, 1), Date(2022, 1, 31), Date(2021, 2, 15), Date(2022, 2, 1),
     Date(2021, 12, 1), Date(2021, 1, 10), Date(2022, 4, 20)}

\* i32 totals a report may hold.
SampleTotals ==
    {0, 1, -1, 9, -9, 10, -10, 1000, -1000, 195000, -3000, -10000, I32Max, I32Min,
     I32Min + 1}

\* Lines typed at the prompts (each ends with the newline read_line keeps).
ServiceLines == {<<"0", "\n">>, <<"1", "\n">>, <<"2", "\n">>, <<"x", "\n">>}

KindLines == {<<"0", "\n">>, <<"1", "\n">>, <<"2", "\n">>}

NameLines == {<<" ", "a", "\n">>}

CatLines == {<<"0", "\n">>, <<"2", "\n">>, <<"3", "\n">>}

PriceLines == {<<"5", "0", "0", "0", "\n">>, <<"x", "\n">>}

DateLines ==
    {<<"2", "0", "2", "2", "-", "0", "1", "-", "1", "0", "\n">>,
     <<"2", "0", "2", "2", "-", "0", "2", "-", "3", "0", "\n">>}

RegisterInputs ==
    [kind : KindLines, name : NameLines, cat : CatLines, price : PriceLines,
     date : DateLines]

NoInput == [kind |-> <<>>, name |-> <<>>, cat |-> <<>>, price |-> <<>>, date |-> <<>>]

\* An object whose category names no variant of the enum.
BadObject ==
    [name |-> <<"z">>, category |-> [tag |-> "Expense", value |-> "Salary"],
     price |-> <<"1">>, date |-> <<"2", "0", "2", "2", "-", "0", "1", "-", "1", "0">>]

\* A ledger already in the store when the first run starts.
StoredLedger == <<Item(<<"c">>, Expense("Hobby"), U32(0, 3000), Date(2021, 2, 15))>>

\* The states the store may be in when the program starts: missing, an empty
\* ledger, a valid ledger, a valid ledger that cannot be opened for reading,
\* malformed content (no JSON, an empty file, an unknown variant).
StartStores ==
    {Missing,
     File(TRUE, JsonArray(<<>>)),
     File(TRUE, to_string_pretty(StoredLedger)),
     File(FALSE, to_string_pretty(StoredLedger)),
     File(TRUE, NotJson),
     File(TRUE, EmptyFile),
     File(TRUE, JsonArray(<<BadObject>>))}

Started == [fn |-> "start", args |-> <<>>]

Pending == Err("pending")

IsPending(r) == ~r.ok /\ r.val = "pending"

(***************************************************************************)
(* Spec: the program run again and again on one store                      *)
(***************************************************************************)
Init ==
    /\ store \in StartStores
    /\ build \in Builds
    /\ out = <<>>
    /\ panic = NoPanic
    /\ call = Started
    /\ ret = Pending

\* One run of the program, r being what main returned.
Run(r) ==
    /\ store' = r.store
    /\ out' = r.out
    /\ panic' = r.panic
    /\ ret' = r.ret
    /\ call' = [fn |-> r.fn, args |-> <<>>]
    /\ UNCHANGED build

\* The user selects 0: a Registration run.
Register ==
    \E inp \in RegisterInputs, createOk \in BOOLEAN, writeOk \in BOOLEAN :
        /\ Len(store.content.elems) < MaxStore
        /\ Run(main(<<"0", "\n">>, inp, store, build, createOk, writeOk))

\* The user selects 1: a Summarization run.
Summarize ==
    \E line \in {<<"1", "\n">>} : Run(main(line, NoInput, store, build, TRUE, TRUE))

\* The user types anything else: main panics before dispatching.
Rejected ==
    \E line \in ServiceLines \ {<<"0", "\n">>, <<"1", "\n">>} :
        Run(main(line, NoInput, store, build, TRUE, TRUE))

Next == Register \/ Summarize \/ Rejected

Spec == Init /\ [][Next]_vars

(***************************************************************************)
(* SpecSummary: Summarization runs on a drawn store                        *)
(***************************************************************************)
SummaryStores ==
    StartStores \cup {File(TRUE, to_string_pretty(get_test_data))}
        \cup {File(TRUE, to_string_pretty(l)) : l \in Ledgers(MaxLedger)}

InitSummary ==
    /\ store \in SummaryStores
    /\ build \in Builds
    /\ out = <<>>
    /\ panic = NoPanic
    /\ call = Started
    /\ ret = Pending

NextSummary == Summarize

SpecSummary == InitSummary /\ [][NextSummary]_vars

(***************************************************************************)
(* SpecIO: write_to_json, then read_data_or_create_new_data                *)
(***************************************************************************)
InitIO ==
    /\ store \in StartStores
    /\ build = "release"
    /\ out = <<>>
    /\ panic = NoPanic
    /\ \E data \in Ledgers(MaxLedger) : call = [fn |-> "write_to_json", args |-> <<data>>]
    /\ ret = Pending

\* The call returned r, which carries the lines printed and maybe a store.
Returned(r, st) ==
    /\ ret' = [ok |-> r.ok, val |-> r.val]
    /\ out' = r.out
    /\ panic' = IF r.ok THEN NoPanic ELSE r.val
    /\ store' = st
    /\ UNCHANGED build

Save ==
    /\ call.fn = "write_to_json"
    /\ IsPending(ret)
    /\ \E createOk \in BOOLEAN, writeOk \in BOOLEAN :
          Returned(write_to_json(call.args[1], store, createOk, writeOk),
                   write_to_json(call.args[1], store, createOk, writeOk).store)
    /\ UNCHANGED call

Load ==
    /\ call.fn = "write_to_json"
    /\ ~IsPending(ret)
    /\ Returned(read_data_or_create_new_data(store), store)
    /\ call' = [fn |-> "read_data_or_create_new_data", args |-> <<>>]

NextIO == Save \/ Load

SpecIO == InitIO /\ [][NextIO]_vars

(***************************************************************************)
(* SpecFn: one call of a function of models, validate or summarize         *)
(***************************************************************************)
U8 == 0..U8Max

InitFn ==
    /\ store = Missing
    /\ out = <<>>
    /\ panic = NoPanic
    /\ ret = Pending
    /\ \/ /\ build = "release"
          /\ \E k \in U8, c \in U8 : call = [fn |-> "get_category", args |-> <<k, c>>]
       \/ /\ build = "release"
          /\ \E c \in U8 : call = [fn |-> "validate_service_type", args |-> <<c>>]
       \/ /\ build = "release"
          /\ \E c \in U8 : call = [fn |-> "validate_register_type", args |-> <<c>>]
       \/ /\ build = "release"
          /\ \E k \in U8, c \in U8 :
                call = [fn |-> "validate_category_type", args |-> <<k, c>>]
       \/ /\ build \in Builds
          /\ \E c \in Category, p \in SamplePrices :
                call = [fn |-> "get_price_for_summary",
                        args |-> <<Item(<<"a">>, c, p, Date(2022, 1, 10))>>]
       \/ /\ build = "release"
          /\ \E t \in SampleTotals : call = [fn |-> "format_price", args |-> <<t>>]
       \/ /\ build = "release"
          /\ \E data \in Ledgers(MaxLedger), d \in SampleDates :
                call = [fn |-> "get_filtered_data", args |-> <<data, d>>]

Applied(r) ==
    /\ IsPending(ret)
    /\ ret' = r
    /\ UNCHANGED <<store, build, out, panic, call>>

CallGetCategory ==
    /\ call.fn = "get_category"
    /\ Applied(get_category(call.args[1], call.args[2]))

CallValidateServiceType ==
    /\ call.fn = "validate_service_type"
    /\ Applied(validate_service_type(call.args[1]))

CallValidateRegisterType ==
    /\ call.fn = "validate_register_type"
    /\ Applied(validate_register_type(call.args[1]))

CallValidateCategoryType ==
    /\ call.fn = "validate_category_type"
    /\ Applied(validate_category_type(call.args[1], call.args[2]))

CallGetPriceForSummary ==
    /\ call.fn = "get_price_for_summary"
    /\ Applied(get_price_for_summary(call.args[1], build))

CallFormatPrice ==
    /\ call.fn = "format_price"
    /\ Applied(Ok(format_price(call.args[1])))

CallGetFilteredData ==
    /\ call.fn = "get_filtered_data"
    /\ Applied(Ok(get_filtered_data(call.args[1], call.args[2])))

NextFn ==
    \/ CallGetCategory
    \/ CallValidateServiceType
    \/ CallValidateRegisterType
    \/ CallValidateCategoryType
    \/ CallGetPriceForSummary
    \/ CallFormatPrice
    \/ CallGetFilteredData

SpecFn == InitFn /\ [][NextFn]_vars

(***************************************************************************)
(* SpecRegister: one Registration run, on drawn lines and a drawn store    *)
(***************************************************************************)
\* Lines typed at the five prompts: valid ones, numbers outside the
\* enumerated sets, text that is no number, numbers beyond the type, dates
\* that are no date.
TypedLines ==
    [kind  : KindLines \cup {<<"x", "\n">>, <<" ", "1", " ", "\n">>,
                             <<"2", "5", "6", "\n">>},
     name  : NameLines \cup {<<"\n">>},
     cat   : CatLines \cup {<<"1", "\n">>, <<"y", "\n">>, <<"\n">>},
     price : PriceLines
               \cup {<<"0", "\n">>, <<"-", "5", "\n">>,
                     <<"4", "2", "9", "4", "9", "6", "7", "2", "9", "5", "\n">>,
                     <<"4", "2", "9", "4", "9", "6", "7", "2", "9", "6", "\n">>},
     date  : DateLines
               \cup {<<"2", "0", "2", "2", "/", "0", "1", "/", "1", "0", "\n">>,
                     <<"2", "0", "2", "2", "-", "1", "3", "-", "0", "1", "\n">>,
                     <<"2", "0", "2", "0", "-", "0", "2", "-", "2", "9", "\n">>,
                     <<"\n">>}]

\* The store is as when the program starts, or malformed and not openable
\* for reading.
InitRegister ==
    /\ store \in StartStores \cup {File(FALSE, NotJson)}
    /\ build \in Builds
    /\ out = <<>>
    /\ panic = NoPanic
    /\ \E inp \in TypedLines : call = [fn |-> "main", args |-> <<inp>>]
    /\ ret = Pending

\* One run of the program on the lines of args, r being what main returned.
Ran(r, args) ==
    /\ store' = r.store
    /\ out' = r.out
    /\ panic' = r.panic
    /\ ret' = r.ret
    /\ call' = [fn |-> r.fn, args |-> args]
    /\ UNCHANGED build

\* The user selects 0 and types the lines drawn.
RegisterOnce ==
    /\ call.fn = "main"
    /\ IsPending(ret)
    /\ \E createOk \in BOOLEAN, writeOk \in BOOLEAN :
          Ran(main(<<"0", "\n">>, call.args[1], store, build, createOk, writeOk), call.args)

SpecRegister == InitRegister /\ [][RegisterOnce]_vars

(***************************************************************************)
(* Properties                                                              *)
(***************************************************************************)
\* The store is missing or holds a valid ledger.
MissingOrValid(st) == ~st.exists \/ from_reader(st.content).ok

\* The ledger a store holds (a missing store counts as the empty ledger, and
\* so does content that is no ledger).
LedgerOf(st) ==
    IF st.exists /\ from_reader(st.content).ok THEN from_reader(st.content).val ELSE <<>>

\* C1: a Registration run that starts from a missing store or from a store
\* holding a valid ledger L and succeeds leaves the store holding L followed
\* by the one new Entry, so every stored ledger is a prefix of the later ones.
C1_AppendOnly ==
    [][(call'.fn = "register::run" /\ panic' = NoPanic /\ MissingOrValid(store))
          => /\ store'.exists
             /\ from_reader(store'.content).ok
             /\ from_reader(store'.content).val = Append(LedgerOf(store), ret'.val)]_vars

\* The entries of data dated in the month (y, m).
OfMonth(data, y, m) ==
    SelectSeq(data, LAMBDA e : e.date.y = y /\ e.date.m = m)

\* The sum of +amount over the Income entries and -amount over the Expense
\* entries of data, on the halves: [hi, lo] with value hi * 65536 + lo and
\* lo in 0..65535 (hi may be negative).
RECURSIVE SignedHalves(_, _, _)
SignedHalves(data, hi, lo) ==
    IF data = <<>> THEN [hi |-> hi + (lo \div Half), lo |-> lo % Half]
    ELSE IF Head(data).category.variant = "Income"
    THEN SignedHalves(Tail(data), hi + Head(data).price.hi, lo + Head(data).price.lo)
    ELSE SignedHalves(Tail(data), hi - Head(data).price.hi, lo - Head(data).price.lo)

SignedSum(data) == SignedHalves(data, 0, 0)

\* The i32 total equals the sum s.
TotalIs(total, s) ==
    /\ s.hi >= -(Half \div 2)
    /\ s.hi < Half \div 2
    /\ total = s.hi * Half + s.lo

\* The months (year, month) among the dates of data.
MonthKeys(data) == {<<data[i].date.y, data[i].date.m>> : i \in 1..Len(data)}

MonthBefore(a, b) == a[1] < b[1] \/ (a[1] = b[1] /\ a[2] < b[2])

\* The lines of a Summarization run after the two headings.
ReportLines == SubSeq(out, 3, Len(out))

\* Line l reports month k with the total t.
Reports(l, k, t) ==
    /\ l.msg = "the balance of {} was {} yen"
    /\ l.args[1] = FormatNat(k[1]) \o <<"/">> \o FormatNat(k[2])
    /\ l.args[2] = format_price(t)

\* The report is the sequence of months ks, each with the sum of its entries.
ReportIs(data, ks) ==
    /\ Len(ReportLines) = Len(ks)
    /\ \A i \in 1..Len(ks) :
          \E t \in {ret.val[Date(ks[i][1], ks[i][2], 1)]} :
              /\ TotalIs(t, SignedSum(OfMonth(data, ks[i][1], ks[i][2])))
              /\ Reports(ReportLines[i], ks[i], t)

\* The months of data in ascending order.
RECURSIVE MonthsAscending(_)
MonthsAscending(S) ==
    IF S = {} THEN <<>>
    ELSE LET first == CHOOSE a \in S : \A b \in S \ {a} : MonthBefore(a, b)
         IN  <<first>> \o MonthsAscending(S \ {first})

\* C2: for every non-empty ledger Summarization reports one (month, total)
\* pair per distinct (year, month) of the entries' dates, in strictly
\* ascending order, each total the sum of signedAmount over that month.
C2_MonthlyTotals ==
    (call.fn = "summarize::run" /\ store.exists /\ store.readable
        /\ from_reader(store.content).ok /\ Len(LedgerOf(store)) > 0)
    => /\ panic = NoPanic
       /\ ret.ok
       /\ DOMAIN ret.val = {Date(k[1], k[2], 1) : k \in MonthKeys(LedgerOf(store))}
       /\ ReportIs(LedgerOf(store), MonthsAscending(MonthKeys(LedgerOf(store))))

\* C3: for any ledger, saving it with write_to_json and then loading the
\* store with read_data_or_create_new_data returns the ledger saved: the same
\* length, the same order, every field of every entry.
C3_RoundTrip ==
    [][(call.fn = "write_to_json" /\ ret.ok
            /\ call'.fn = "read_data_or_create_new_data")
          => (ret'.ok /\ ret'.val = call.args[1])]_vars

\* The amount p is the absolute value of the i32 v.
AbsIs(v, p) ==
    IF v = I32Min THEN p = U32(Half \div 2, 0)
    ELSE IF v < 0 THEN p = U32((-v) \div Half, (-v) % Half)
    ELSE p = U32(v \div Half, v % Half)

\* C4: for every Entry (amount any u32, category any of the six variants)
\* signedAmount is positive iff the category is Income, negative iff it is
\* Expense, and its absolute value is the stored amount.
C4_SignedAmount ==
    (call.fn = "get_price_for_summary" /\ ~IsPending(ret))
    => /\ ret.ok
       /\ (ret.val > 0) <=> (call.args[1].category.variant = "Income")
       /\ (ret.val < 0) <=> (call.args[1].category.variant = "Expense")
       /\ AbsIs(ret.val, call.args[1].price)

\* The Category the claim gives for registrationKind k and categoryCode c.
Classified(k, c) ==
    IF k = 0
    THEN [variant |-> "Income", sub |-> <<"Salary", "Bonus", "Other">>[c + 1]]
    ELSE [variant |-> "Expense", sub |-> <<"Food", "Hobby", "Other">>[c + 1]]

\* C5: get_category maps the six pairs of {0,1} x {0,1,2} to six pairwise
\* distinct Categories (0,0 Income/Salary, 0,1 Income/Bonus, 0,2 Income/Other,
\* 1,0 Expense/Food, 1,1 Expense/Hobby, 1,2 Expense/Other), and for every
\* registrationKind a categoryCode outside {0,1,2} fails with the
\* invalid-category error.
C5_Classify ==
    (call.fn = "get_category" /\ ~IsPending(ret))
    => /\ (call.args[2] \notin {0, 1, 2})
            => (~ret.ok /\ ret.val = MsgInvalidCategory)
       /\ (call.args[1] \in {0, 1} /\ call.args[2] \in {0, 1, 2})
            => /\ ret.ok
               /\ ret.val = Classified(call.args[1], call.args[2])
               /\ \A k \in {0, 1}, c \in {0, 1, 2} :
                     (<<k, c>> # call.args) => (get_category(k, c).val # ret.val)

\* get_category(1, 2) has returned Expense/Other.
C5_Witness ==
    /\ call.fn = "get_category"
    /\ call.args[1] = 1
    /\ call.args[2] = 2
    /\ ret.ok
    /\ ret.val = Expense("Other")

\* A store Summarization has nothing to read from: missing, not openable,
\* malformed, or a ledger of zero entries.
Malformed(st) ==
    \/ st.content.kind # "json array"
    \/ \E i \in 1..Len(st.content.elems) : ~DeserializeItem(st.content.elems[i]).ok

ZeroEntries(st) == st.content.kind = "json array" /\ Len(st.content.elems) = 0

NoReportLine(o) == \A i \in 1..Len(o) : o[i].msg # LineReport(<<>>, <<>>).msg

\* C6: Summarization panics and prints no report line when the store is
\* missing, cannot be opened, is malformed or holds zero entries; the
\* zero-entry panic ("no data") differs from the missing-file and the
\* malformed-content panics.
C6_NothingToSummarize ==
    [][call'.fn = "summarize::run"
          => /\ (~store.exists \/ ~store.readable)
                 => (panic' = MsgCannotOpen /\ NoReportLine(out'))
             /\ (store.exists /\ store.readable /\ Malformed(store))
                 => (panic' = MsgDeserialize /\ NoReportLine(out'))
             /\ (store.exists /\ store.readable /\ ZeroEntries(store))
                 => (panic' = MsgNoData /\ NoReportLine(out'))
             /\ MsgNoData \notin {MsgCannotOpen, MsgDeserialize, NoPanic}
             /\ NoPanic \notin {MsgCannotOpen, MsgDeserialize}]_vars

\* Summarization has panicked with "no data" on a store holding [].
C6_Witness ==
    /\ call.fn = "summarize::run"
    /\ store = File(TRUE, JsonArray(<<>>))
    /\ panic = MsgNoData
    /\ out = <<PromptService, LineSummarizeStart>>

\* s is a subsequence of t (the elements of s, in order, among those of t).
RECURSIVE IsSubseq(_, _)
IsSubseq(s, t) ==
    IF s = <<>> THEN TRUE
    ELSE IF t = <<>> THEN FALSE
    ELSE IF Head(s) = Head(t) THEN IsSubseq(Tail(s), Tail(t))
    ELSE IsSubseq(s, Tail(t))

SameMonth(a, b) == a.y = b.y /\ a.m = b.m

Range(s) == {s[i] : i \in 1..Len(s)}

\* C7: filtering by any date of a month selects exactly the entries of that
\* year and month, in ledger order, whatever the day; two entries of a ledger
\* are in the same monthly bucket iff their dates have the same year and the
\* same month.
C7_MonthlyGrouping ==
    (call.fn = "get_filtered_data" /\ ~IsPending(ret))
    => /\ IsSubseq(ret.val, call.args[1])
       /\ \A i \in 1..Len(ret.val) : SameMonth(ret.val[i].date, call.args[2])
       /\ Len(ret.val)
            = Cardinality({i \in 1..Len(call.args[1]) :
                              SameMonth(call.args[1][i].date, call.args[2])})
       /\ \A i \in 1..Len(call.args[1]), j \in 1..Len(call.args[1]) :
             (\E t \in get_target_dates(call.args[1]) :
                  {call.args[1][i], call.args[1][j]}
                      \subseteq Range(get_filtered_data(call.args[1], t)))
             <=> SameMonth(call.args[1][i].date, call.args[1][j].date)

\* Filtering a ledger with entries of 2021-02-15, 2022-02-15 and 2022-02-28
\* by 2022-02-01 has returned the two entries of February 2022.
C7_Witness ==
    /\ call.fn = "get_filtered_data"
    /\ ~IsPending(ret)
    /\ call.args[2] = Date(2022, 2, 1)
    /\ Len(call.args[1]) = 3
    /\ {call.args[1][i].date : i \in 1..3}
          = {Date(2021, 2, 15), Date(2022, 2, 15), Date(2022, 2, 28)}
    /\ Len(ret.val) = 2

\* C8: each validator accepts exactly its enumerated set over all 8-bit
\* codes: validate_service_type {0,1}, validate_register_type {0,1},
\* validate_category_type code in {0,1,2} whatever the kind; any other code
\* panics with that validator's own message.
C8_Validators ==
    ~IsPending(ret)
    => /\ (call.fn = "validate_service_type")
            => /\ ret.ok <=> (call.args[1] \in {0, 1})
               /\ ~ret.ok => (ret.val = MsgInvalidService)
       /\ (call.fn = "validate_register_type")
            => /\ ret.ok <=> (call.args[1] \in {0, 1})
               /\ ~ret.ok => (ret.val = MsgInvalidRegisterType)
       /\ (call.fn = "validate_category_type")
            => /\ ret.ok <=> (call.args[2] \in {0, 1, 2})
               /\ ~ret.ok => (ret.val = MsgInvalidCategoryType)
       /\ Cardinality({MsgInvalidService, MsgInvalidRegisterType,
                       MsgInvalidCategoryType}) = 3

\* validate_category_type(1, 3) has panicked with the category message.
C8_Witness ==
    /\ call.fn = "validate_category_type"
    /\ call.args[1] = 1
    /\ call.args[2] = 3
    /\ ~ret.ok
    /\ ret.val = MsgInvalidCategoryType

\* The digits t, read as a negative number: -(t as a decimal number).
RECURSIVE NegativeOf(_, _)
NegativeOf(t, acc) ==
    IF t = <<>> THEN acc ELSE NegativeOf(Tail(t), acc * 10 - DigitVal(Head(t)))

\* The text t renders the total n: "0" for zero, '+' and the digits for a
\* positive total, '-' and the digits of the magnitude for a negative one.
Renders(t, n) ==
    IF n = 0 THEN t = <<"0">>
    ELSE /\ Len(t) >= 2
         /\ Head(t) = IF n > 0 THEN "+" ELSE "-"
         /\ AllDigits(Tail(t))
         /\ t[2] # "0"
         /\ NegativeOf(Tail(t), 0) = IF n > 0 THEN -n ELSE n

\* C9: in the report, every month of the ledger has its line, also a month
\* whose entries net to exactly zero, whose total is rendered "0" with no
\* sign; a positive total is rendered with a leading '+', a negative one with
\* a leading '-' and its magnitude.
C9_ReportRendering ==
    (call.fn = "summarize::run" /\ panic = NoPanic)
    => /\ ret.ok
       /\ Len(ReportLines) = Cardinality(MonthKeys(LedgerOf(store)))
       /\ \A k \in MonthKeys(LedgerOf(store)) :
             \E i \in 1..Len(ReportLines) :
                 /\ ReportLines[i].args[1] = FormatNat(k[1]) \o <<"/">> \o FormatNat(k[2])
                 /\ Renders(ReportLines[i].args[2], ret.val[Date(k[1], k[2], 1)])
                 /\ (SignedSum(OfMonth(LedgerOf(store), k[1], k[2])) = [hi |-> 0, lo |-> 0])
                      => (ReportLines[i].args[2] = <<"0">>)

\* A report with a month netting to zero (5000 in, 5000 out) rendered "0"
\* and a month with a positive total rendered with '+'.
C9_Witness ==
    /\ call.fn = "summarize::run"
    /\ panic = NoPanic
    /\ Len(ReportLines) = 2
    /\ Len(LedgerOf(store)) = 3
    /\ ReportLines[1].args = <<<<"2", "0", "2", "2", "/", "1">>, <<"0">>>>
    /\ Head(ReportLines[2].args[2]) = "+"

\* C10: a Summarization run, successful or failed, leaves the store as it
\* was, and a second run right after the first prints the same lines and
\* ends the same way.
C10_ReadOnly ==
    [][call'.fn = "summarize::run"
          => /\ store' = store
             /\ (call.fn = "summarize::run") => (out' = out /\ panic' = panic)]_vars

\* A Summarization run has printed a report of three months.
C10_Witness ==
    /\ call.fn = "summarize::run"
    /\ panic = NoPanic
    /\ Len(ReportLines) = 3
    /\ store = File(TRUE, to_string_pretty(get_test_data))

\* The lines typed, read as the claim reads them: the kind is a number of
\* {0,1}, the category code a number of {0,1,2}, the amount a u32, the date a
\* calendar date.
KindInvalid(inp) ==
    ~ParseU8(Trim(inp.kind)).ok \/ ParseU8(Trim(inp.kind)).val \notin {0, 1}

CodeInvalid(inp) ==
    ~ParseU8(Trim(inp.cat)).ok \/ ParseU8(Trim(inp.cat)).val \notin {0, 1, 2}

AmountInvalid(inp) == ~ParseU32(Trim(inp.price)).ok

DateInvalid(inp) == ~ParseDate(inp.date).ok

\* The prompts of the steps, in the order kind, name, category code, amount,
\* date, for the kind k typed.
StepPrompts(k) ==
    <<<<PromptService, LineRegisterStart, PromptRegisterType>>,
      <<PromptName>>,
      PromptCategory(k),
      <<PromptPrice>>,
      <<PromptDate>>>>

RECURSIVE PromptsThrough(_, _)
PromptsThrough(k, step) ==
    IF step = 0 THEN <<>> ELSE PromptsThrough(k, step - 1) \o StepPrompts(k)[step]

\* The run stopped at the given step: it printed the prompts through that
\* step and nothing after, panicked with one of the step's messages,
\* constructed no entry and left the store as it was.
StoppedAt(step, k, msgs, o, p, r, before, after) ==
    /\ o = PromptsThrough(k, step)
    /\ p \in msgs
    /\ ~r.ok
    /\ after = before

\* The step a run on the lines inp must stop at (0: none).
FirstInvalid(inp) ==
    IF KindInvalid(inp) THEN 1
    ELSE IF CodeInvalid(inp) THEN 3
    ELSE IF AmountInvalid(inp) THEN 4
    ELSE IF DateInvalid(inp) THEN 5
    ELSE 0

StepMessages(step) ==
    CASE step = 1 -> {MsgRegisterTypeNotNumber, MsgInvalidRegisterType}
      [] step = 3 -> {MsgCategoryNotNumber, MsgInvalidCategoryType}
      [] step = 4 -> {MsgPriceNotNumber}
      [] step = 5 -> {MsgDateFormat}
      [] OTHER -> {}

KindTyped(inp) == IF KindInvalid(inp) THEN 0 ELSE ParseU8(Trim(inp.kind)).val

\* C11: Registration collects kind, name, category code, amount, date in that
\* order; the first invalid line (kind outside {0,1}, category code outside
\* {0,1,2}, amount that is no number, date that is no date) aborts the run at
\* its step: no later prompt is printed, no entry is constructed, and the
\* store is left as it was. With five valid lines all five prompts are
\* printed in order and the entry is constructed.
C11_LinearNoRetry ==
    [][call'.fn = "register::run"
          => IF FirstInvalid(call.args[1]) # 0
             THEN StoppedAt(FirstInvalid(call.args[1]), KindTyped(call.args[1]),
                            StepMessages(FirstInvalid(call.args[1])),
                            out', panic', ret', store, store')
             ELSE /\ ret'.ok
                  /\ Len(out') > Len(PromptsThrough(KindTyped(call.args[1]), 5))
                  /\ SubSeq(out', 1, Len(PromptsThrough(KindTyped(call.args[1]), 5)))
                        = PromptsThrough(KindTyped(call.args[1]), 5)
                  /\ out'[Len(PromptsThrough(KindTyped(call.args[1]), 5)) + 1]
                        = LineItem(ret'.val)]_vars

\* A run on a store holding a ledger, with a valid kind, name, code and
\* amount and the date 2022-02-30, has stopped at the date step.
C11_Witness ==
    /\ call.fn = "register::run"
    /\ call.args[1].date = <<"2", "0", "2", "2", "-", "0", "2", "-", "3", "0", "\n">>
    /\ call.args[1].kind = <<"1", "\n">>
    /\ panic = MsgDateFormat
    /\ out = PromptsThrough(1, 5)
    /\ store = File(TRUE, to_string_pretty(StoredLedger))

\* The line l is among those printed.
Printed(l, o) == \E i \in 1..Len(o) : o[i] = l

\* C12: a Registration run that has collected five valid lines finds the
\* store missing or malformed. Missing: the load returns the empty ledger
\* with the new-file notice and no failure, and the run, when it succeeds,
\* leaves a store holding exactly the one new entry. Existing with malformed
\* content: the run fails with the deserialization error, nothing is saved,
\* and the store is left as it was.
C12_MissingOrMalformed ==
    [][(call'.fn = "register::run" /\ ret'.ok)
          => /\ ~store.exists
                 => /\ Printed(LineNewFile, out')
                    /\ panic' # MsgDeserialize
                    /\ (panic' = NoPanic)
                         => (store' = File(TRUE, to_string_pretty(<<ret'.val>>)))
             /\ (store.exists /\ Malformed(store))
                 => /\ panic' = MsgDeserialize
                    /\ ~Printed(LineRegistered, out')
                    /\ store' = store]_vars

\* C13: a Registration run never loses entries already persisted. Whatever
\* the store was (missing, holding a valid ledger L, malformed, or holding a
\* valid ledger L that fails to open for reading), after the run it is
\* either as it was or holds L followed by the new entry; a store whose
\* open-for-read fails is never replaced by a ledger of the new entry alone.
\* (A write that fails midway, the risk save documents, is left aside.)
C13_NeverLosesEntries ==
    [][(call'.fn = "register::run" /\ panic' # MsgWriteFailed)
          => \/ store' = store
             \/ /\ MissingOrValid(store)
                /\ ret'.ok
                /\ store'.exists
                /\ from_reader(store'.content).ok
                /\ from_reader(store'.content).val = Append(LedgerOf(store), ret'.val)]_vars

====
